---- MODULE Spec2Model ----
(***************************************************************************)
(* Price resolution of frontend-descuentos.                                *)
(*                                                                         *)
(* OdooService.getBestPrice (api/odooService) fetches the product record   *)
(* of a barcode and resolves the unit price for a quantity from the four   *)
(* rule lists of the record.  Prices are modelled exactly, in hundredths   *)
(* of the currency unit: a JS number n is the integer n * PriceScale, so   *)
(* lst_price * (1 - percent_price / 100) is lst_price * (100 -             *)
(* percent_price).  A field that is absent (undefined) is modelled as 0:   *)
(* the code only tests such fields for truthiness, and 0 and undefined are *)
(* both falsy.                                                             *)
(*                                                                         *)
(* Spec is that resolver over the product records of bounded size.         *)
(* HookSpec is useProductData (hooks/useProductData) under the Home page   *)
(* that edits a quantity and resolves prices through the hook; StatusSpec  *)
(* is the auto-check of useServerStatus (hooks/useServerStatus); HomeSpec  *)
(* is the Home page (pages/Home) that hands detected codes to the hook;    *)
(* SearchSpec is the hook under its search operations alone, by POST and   *)
(* by GET; PriceSpec is the Home page whose price effect runs after each   *)
(* commit that changes product, quantity or getBestPrice.                  *)
(* A callback of a component reads the values of the render that created   *)
(* it: rendered holds them, and Render is the step that renews them.       *)
(***************************************************************************)
EXTENDS Integers, Sequences, FiniteSets, Bags

VARIABLES productData, quantity, result

\* useProductData and the Home page that uses it: the hook's state, the bags
\* of searches and of price resolutions awaiting the provider, the number of
\* requests sent, what getBestPrice of the hook last returned, the quantity
\* field of the page, and whether clearData ran after the last search began.
VARIABLES state, searches, resolutions, issued, returned, homeQuantity, cleared

hookVars ==
    <<state, searches, resolutions, issued, returned, homeQuantity, cleared>>

\* The Home page with useServerStatus and useSearchHistory: the status of
\* the server as last checked and the number of checks awaiting their
\* answer; the interval timer of the auto-check kept in the hook's state, the
\* interval timers that are running, the number of timers made, whether
\* stopAutoCheck was the last of the start and stop calls, whether the
\* component is mounted; the camera flag, the search history, the values the
\* last render gave to the callbacks, and a bit that flips at each detected
\* code.
VARIABLES isOnline, checks, intervalId, timers, made, stopped, mounted,
          isCameraActive, history, rendered, tick

pageVars ==
    <<isOnline, checks, intervalId, timers, made, stopped, mounted,
      isCameraActive, history, rendered, tick>>

vars == <<productData, quantity, result, hookVars, pageVars>>

(* ------------------------------ bounds -------------------------------- *)

\* Greatest number of rules a product response carries, over its four lists.
MaxRules == 2

\* Hundredths per currency unit.
PriceScale == 100

\* Rule.min_quantity values.  The code only compares a threshold with the
\* quantity and with other thresholds: two of them put a pair of rules in
\* every order, below, at and above a quantity.
MinQuantities == {1, 2}

\* Rule.fixed_price values: none (0 or absent) and a price.
FixedPrices == {0, 1}

\* ProductResponse.lst_price values.
ListPrices == {1, 2}

(* ------------------------- the product record ------------------------- *)

\* Rule.compute_price: Odoo's 'fixed', 'percentage' and 'formula'.
ComputeModes == {"fixed", "percentage", "formula"}

\* Rule.percent_price values: a surcharge, none (0 or absent), a half, the
\* whole price.
PercentValues == {-50, 0, 50, 100}

\* The rules of a response.  percent_price decides nothing unless
\* compute_price is 'percentage' (the test of line 226 fails whatever its
\* value), so a rule of another mode carries none.
Rule ==
    {r \in [min_quantity : MinQuantities,
            fixed_price : FixedPrices,
            percent_price : PercentValues,
            compute_price : ComputeModes] :
        r.compute_price # "percentage" => r.percent_price = 0}

\* The keys of RulesByApplication.
Applications == {"global", "category", "product_template", "product_variant"}

\* How many rules each of the four lists holds.
Shapes ==
    {s \in [Applications -> 0..MaxRules] :
        s["global"] + s["category"] + s["product_template"]
            + s["product_variant"] <= MaxRules}

ShapeLen(s) ==
    s["global"] + s["category"] + s["product_template"] + s["product_variant"]

\* The sub-sequence of flat that starts after `from` elements, `len` long.
Slice(flat, from, len) == [i \in 1..len |-> flat[from + i]]

Split(flat, s) ==
    [global |-> Slice(flat, 0, s["global"]),
     category |-> Slice(flat, s["global"], s["category"]),
     product_template |->
         Slice(flat, s["global"] + s["category"], s["product_template"]),
     product_variant |->
         Slice(flat, s["global"] + s["category"] + s["product_template"],
               s["product_variant"])]

(* --------------------------- getBestPrice ----------------------------- *)

\* A rule of the flattened list, with the list it came from and its place
\* there (the code keeps references to the objects of the response).
Entry(app, list) ==
    [i \in 1..Len(list) |-> [rule |-> list[i], applied_on |-> app, index |-> i]]

allRules(data) ==
    Entry("product_variant", data.rules_by_application.product_variant)
    \o Entry("product_template", data.rules_by_application.product_template)
    \o Entry("category", data.rules_by_application.category)
    \o Entry("global", data.rules_by_application.global)

\* A sort that is not stable: an element goes before the elements whose
\* min_quantity is equal.
RECURSIVE InsertDescUnstable(_, _)
InsertDescUnstable(e, s) ==
    IF s = <<>> THEN <<e>>
    ELSE IF Head(s).rule.min_quantity - e.rule.min_quantity > 0
         THEN <<Head(s)>> \o InsertDescUnstable(e, Tail(s))
         ELSE <<e>> \o s

\* Array.prototype.sort is stable: an element goes behind the elements whose
\* min_quantity is not smaller.
RECURSIVE InsertDesc(_, _)
InsertDesc(e, s) ==
    IF s = <<>> THEN <<e>>
    ELSE IF Head(s).rule.min_quantity - e.rule.min_quantity >= 0
         THEN <<Head(s)>> \o InsertDesc(e, Tail(s))
         ELSE <<e>> \o s

RECURSIVE SortFrom(_, _)
SortFrom(rest, acc) ==
    IF rest = <<>> THEN acc
    ELSE SortFrom(Tail(rest), InsertDesc(Head(rest), acc))

sorted(data) == SortFrom(allRules(data), <<>>)

\* Mutant: the threshold itself does not qualify.
QualifiesAbove(q, rule) == q > rule.min_quantity

Qualifies(q, rule) == q >= rule.min_quantity

HasFixedPrice(rule) == rule.fixed_price # 0 /\ rule.fixed_price > 0

HasPercentPrice(rule) ==
    rule.percent_price # 0 /\ rule.compute_price = "percentage"

FixedPrice(rule) == rule.fixed_price * PriceScale

\* Mutant: the discount taken as an amount off the price.
PercentageAsAmount(lst_price, rule) ==
    (lst_price - rule.percent_price) * PriceScale

PercentagePrice(lst_price, rule) ==
    lst_price * (100 - rule.percent_price)

NoRule == [applied_on |-> "none"]

\* The for loop over the sorted rules, and the return behind it.
RECURSIVE Scan(_, _, _)
Scan(rules, q, lst_price) ==
    IF rules = <<>> THEN [price |-> lst_price * PriceScale, rule |-> NoRule]
    ELSE LET e == Head(rules) IN
         IF Qualifies(q, e.rule) /\ HasFixedPrice(e.rule)
         THEN [price |-> FixedPrice(e.rule), rule |-> e]
         ELSE IF Qualifies(q, e.rule) /\ HasPercentPrice(e.rule)
         THEN [price |-> PercentagePrice(lst_price, e.rule), rule |-> e]
         ELSE Scan(Tail(rules), q, lst_price)

getBestPrice(data, q) == Scan(sorted(data), q, data.lst_price)

(* ------------------------- useProductData state ----------------------- *)

\* Requests the model lets the page send, searches and resolutions together.
MaxRequests == 4

\* null in the fields of the hook's state.  A barcode is a sequence of
\* characters; the code stores trimmed, non-empty barcodes only and tests the
\* field for truthiness, so the empty sequence stands for null.
NoProduct == [barcode |-> <<>>]
NoError == "null"
NoBarcode == <<>>

InitialState ==
    [product |-> NoProduct, loading |-> FALSE, error |-> NoError,
     lastSearchedBarcode |-> NoBarcode]

\* getBestPrice of the hook has not returned yet.  A return is kept with the
\* quantity passed, the product that was loaded at the call and the barcode
\* that was resolved.
NoReturn ==
    [quantity |-> 0, product |-> NoProduct, barcode |-> NoBarcode,
     outcome |-> "none", price |-> -1]

\* The quantity state of Home, number | string: 1 at first.
NumberQuantity(n) == [kind |-> "number", number |-> n]
EmptyQuantity == [kind |-> "string", number |-> 0]

\* null in the intervalId state of useServerStatus.
NoTimer == 0

\* The page after its first render and its mount effect: the first
\* checkStatus awaits its answer, startAutoCheck has made the first timer and
\* set it as intervalId, and the callbacks are those of the first render.
PageMounted ==
    /\ isOnline = FALSE
    /\ checks = 1
    /\ intervalId = 1
    /\ timers = {1}
    /\ made = 1
    /\ stopped = FALSE
    /\ mounted = TRUE
    /\ isCameraActive = FALSE
    /\ history = <<>>
    /\ rendered = [isOnline |-> FALSE, loading |-> FALSE,
                   product |-> NoProduct, isCameraActive |-> FALSE,
                   history |-> <<>>, intervalId |-> NoTimer]
    /\ tick = FALSE

HookIdle ==
    /\ state = InitialState
    /\ searches = EmptyBag
    /\ resolutions = EmptyBag
    /\ issued = 0
    /\ returned = NoReturn
    /\ homeQuantity = NumberQuantity(1)
    /\ cleared = FALSE

(* --------------------------- state machine ---------------------------- *)

NoResult == [price |-> -1, rule |-> NoRule]

Init ==
    /\ \E s \in Shapes : \E flat \in [1..ShapeLen(s) -> Rule] :
          \E lst \in ListPrices :
             productData = [lst_price |-> lst,
                            rules_by_application |-> Split(flat, s)]
    /\ quantity = 0
    /\ result = NoResult
    /\ HookIdle
    /\ PageMounted

\* odooService.getBestPrice(barcode, q): the response for the barcode is
\* productData.
GetBestPrice(q) ==
    /\ quantity' = q
    /\ result' = getBestPrice(productData, q)
    /\ UNCHANGED productData
    /\ UNCHANGED hookVars
    /\ UNCHANGED pageVars

\* The quantities asked for: every threshold a rule can have is one of them.
Quantities == MinQuantities

Next == \E q \in Quantities : GetBestPrice(q)

Spec == Init /\ [][Next]_vars

(* ------------------ useProductData and the Home page ------------------ *)

\* String.prototype.trim on a sequence of characters.
RECURSIVE TrimStart(_)
TrimStart(s) ==
    IF s # <<>> /\ Head(s) = " " THEN TrimStart(Tail(s)) ELSE s

RECURSIVE TrimEnd(_)
TrimEnd(s) ==
    IF s # <<>> /\ s[Len(s)] = " "
    THEN TrimEnd(SubSeq(s, 1, Len(s) - 1))
    ELSE s

\* The barcode as typed, blanks included.
untrimmed(s) == s

trim(s) == TrimEnd(TrimStart(s))

\* The barcodes handed to searchProduct: blank ones, and two products with
\* and without surrounding blanks.
BarcodeInputs ==
    {<<>>, <<" ">>, <<"1">>, <<" ", "1">>, <<"2">>, <<"2", " ">>}

Barcodes == {<<"1">>, <<"2">>}

EmptyRules ==
    [global |-> <<>>, category |-> <<>>,
     product_template |-> <<>>, product_variant |-> <<>>]

\* rules_by_application missing from a response.
Absent == [absent |-> TRUE]

\* The records of the provider.  The first comes without
\* rules_by_application; the second lists a rule for one unit before a rule
\* for two.
Catalog ==
    [b \in Barcodes |->
        IF b = <<"1">>
        THEN [success |-> TRUE, barcode |-> b, lst_price |-> 2,
              rules_by_application |-> Absent]
        ELSE [success |-> TRUE, barcode |-> b, lst_price |-> 2,
              rules_by_application |->
                  [EmptyRules EXCEPT
                      !.category =
                          <<[min_quantity |-> 1, fixed_price |-> 0,
                             percent_price |-> 50,
                             compute_price |-> "percentage"],
                            [min_quantity |-> 2, fixed_price |-> 1,
                             percent_price |-> 0,
                             compute_price |-> "fixed"]>>]]]

\* What the provider does with a request: it answers with its record, or
\* the request fails (404, another status, no connection).
Replies == {"ok", "error"}

\* The body of getProductByBarcodePost behind a successful axios.post.
getProductByBarcodePost(b) ==
    LET data == Catalog[b] IN
    IF data.success /\ data.rules_by_application = Absent
    THEN [data EXCEPT !.rules_by_application = EmptyRules]
    ELSE data

RequiredMessage == "El codigo de barras es requerido"
NotFoundMessage == "Producto no encontrado"

\* The body of getProductByBarcodeGet behind a successful axios.get: the
\* response as it came.
getProductByBarcodeGet(b) == Catalog[b]

\* The two requests of the hook for a product.
Methods == {"POST", "GET"}

\* searchProduct(barcode) and searchProductByGet(barcode), up to the await:
\* the same statements, before a call of the service of the method.
rejected(st) == [st EXCEPT !.error = RequiredMessage]

started(st, b) == [st EXCEPT !.loading = TRUE,
                             !.error = NoError,
                             !.lastSearchedBarcode = trim(b)]

StartSearch(b, method) ==
    /\ IF trim(b) = <<>>
       THEN /\ state' = rejected(state)
            /\ UNCHANGED <<searches, issued>>
       ELSE /\ issued < MaxRequests
            /\ state' = started(state, b)
            /\ searches' = searches (+) SetToBag(
                   {[barcode |-> trim(b), method |-> method]})
            /\ issued' = issued + 1
    /\ cleared' = FALSE

SearchProduct(b) ==
    /\ StartSearch(b, "POST")
    /\ UNCHANGED <<productData, quantity, result,
                   resolutions, returned, homeQuantity>>
    /\ UNCHANGED pageVars

SearchProductByGet(b) ==
    /\ StartSearch(b, "GET")
    /\ UNCHANGED <<productData, quantity, result,
                   resolutions, returned, homeQuantity>>
    /\ UNCHANGED pageVars

\* What the service of the request resolves with.
Fetched(r) ==
    IF r.method = "GET"
    THEN getProductByBarcodeGet(r.barcode)
    ELSE getProductByBarcodePost(r.barcode)

\* searchProduct and searchProductByGet behind the await: the try block or
\* the catch block.  React
\* drops the setState of a component that is no longer mounted.
responded(st, r, reply) ==
    IF ~mounted
    THEN st
    ELSE IF reply = "ok"
    THEN [st EXCEPT !.product = Fetched(r), !.loading = FALSE]
    ELSE [st EXCEPT !.product = NoProduct,
                    !.loading = FALSE,
                    !.error = NotFoundMessage]

SearchResponse(r, reply) ==
    /\ BagIn(r, searches)
    /\ searches' = searches (-) SetToBag({r})
    /\ state' = responded(state, r, reply)
    /\ UNCHANGED <<productData, quantity, result,
                   resolutions, issued, returned, homeQuantity, cleared>>
    /\ UNCHANGED pageVars

ClearData ==
    /\ state' = InitialState
    /\ cleared' = TRUE
    /\ UNCHANGED <<productData, quantity, result,
                   searches, resolutions, issued, returned, homeQuantity>>
    /\ UNCHANGED pageVars

\* A clearError that also ends the loading indicator.
clearErrorAndLoading(st) == [st EXCEPT !.error = NoError, !.loading = FALSE]

\* The updater of clearError.
clearError(st) == [st EXCEPT !.error = NoError]

ClearError ==
    /\ state' = clearError(state)
    /\ UNCHANGED <<productData, quantity, result, searches, resolutions,
                   issued, returned, homeQuantity, cleared>>
    /\ UNCHANGED pageVars

\* parseInt on a sequence of characters: an optional sign, then the leading
\* digits; NaN when there is none.
DigitChars == {"0", "1", "2"}

DigitOf(c) == CASE c = "0" -> 0 [] c = "1" -> 1 [] c = "2" -> 2

RECURSIVE LeadingDigits(_, _)
LeadingDigits(s, acc) ==
    IF s # <<>> /\ Head(s) \in DigitChars
    THEN LeadingDigits(Tail(s), acc * 10 + DigitOf(Head(s)))
    ELSE acc

parseInt(s) ==
    LET neg == s # <<>> /\ Head(s) = "-"
        body == IF neg THEN Tail(s) ELSE s
    IN IF body = <<>> \/ Head(body) \notin DigitChars
       THEN [nan |-> TRUE, number |-> 0]
       ELSE [nan |-> FALSE,
             number |-> (IF neg THEN -1 ELSE 1) * LeadingDigits(body, 0)]

\* parseInt(val) || 1: NaN and 0 are falsy.
OrOne(parsed) == IF parsed.nan \/ parsed.number = 0 THEN 1 ELSE parsed.number

Max(a, b) == IF a >= b THEN a ELSE b

\* What the user leaves in the quantity field: nothing, 0, a negative
\* number, letters, a number, a number followed by a letter.
TypedValues ==
    {<<>>, <<"0">>, <<"-", "1">>, <<"a">>, <<"2">>, <<"1", "a">>}

\* onChange of the quantity field of QRScanner.
changed(val) ==
    IF val = <<>>
    THEN EmptyQuantity
    ELSE NumberQuantity(Max(1, OrOne(parseInt(val))))

ChangeQuantity(val) ==
    /\ homeQuantity' = changed(val)
    /\ UNCHANGED <<productData, quantity, result,
                   state, searches, resolutions, issued, returned, cleared>>
    /\ UNCHANGED pageVars

\* onBlur of the quantity field of QRScanner.
blurred(q) == IF q = EmptyQuantity THEN NumberQuantity(1) ELSE q

BlurQuantity ==
    /\ homeQuantity' = blurred(homeQuantity)
    /\ UNCHANGED <<productData, quantity, result,
                   state, searches, resolutions, issued, returned, cleared>>
    /\ UNCHANGED pageVars

\* Number(quantity) of the price effect: Number("") is 0.
Number(q) == IF q.kind = "string" THEN 0 ELSE q.number

\* The hook state a price resolution sets: the opening of searchProduct.
AfterGetBestPriceLoading(st) == [st EXCEPT !.loading = TRUE]

\* The hook state a price resolution leaves: getBestPrice of the hook calls
\* no setState.
AfterGetBestPrice(st) == st

\* The price effect of Home: getBestPrice(Number(quantity)) of the hook when
\* a product is loaded, up to the await of the hook.
\* getBestPrice(Number(q)) of the hook of the render of state st, up to its
\* await, in a step whose handler has sent n requests itself.
CallGetBestPrice(st, q, n) ==
    IF st.lastSearchedBarcode = NoBarcode
    THEN /\ returned' = [quantity |-> Number(q),
                         product |-> st.product,
                         barcode |-> NoBarcode,
                         outcome |-> "null", price |-> -1]
         /\ resolutions' = resolutions
         /\ issued' = issued + n
    ELSE /\ issued + n < MaxRequests
         /\ resolutions' = resolutions (+) SetToBag(
                {[barcode |-> st.lastSearchedBarcode,
                  quantity |-> Number(q),
                  product |-> st.product]})
         /\ issued' = issued + n + 1
         /\ returned' = returned

PriceEffect ==
    /\ state.product # NoProduct
    /\ CallGetBestPrice(state, homeQuantity, 0)
    /\ state' = AfterGetBestPrice(state)
    /\ UNCHANGED <<productData, quantity, result,
                   searches, homeQuantity, cleared>>
    /\ UNCHANGED pageVars

\* How odooService.getBestPrice settles: with a price, or rejected with the
\* error of getProductByBarcodePost.
Settled(r, reply) ==
    IF reply = "ok"
    THEN [outcome |-> "price",
          price |-> getBestPrice(getProductByBarcodePost(r.barcode),
                                 r.quantity).price]
    ELSE [outcome |-> "rejected", price |-> -1]

\* A hook without the try and catch around the call.
Uncaught(settled) == settled

\* The catch block of the hook: a rejection becomes a returned null.
Caught(settled) ==
    IF settled.outcome = "rejected"
    THEN [outcome |-> "null", price |-> -1]
    ELSE settled

\* getBestPrice of the hook behind its await: odooService.getBestPrice has
\* fetched the record of the barcode and resolved the price, or has thrown.
\* The record it worked on is local to the call (Settled).
PriceResponse(r, reply) ==
    /\ BagIn(r, resolutions)
    /\ resolutions' = resolutions (-) SetToBag({r})
    /\ returned' = [quantity |-> r.quantity,
                    product |-> r.product,
                    barcode |-> r.barcode,
                    outcome |-> Caught(Settled(r, reply)).outcome,
                    price |-> Caught(Settled(r, reply)).price]
    /\ state' = AfterGetBestPrice(state)
    /\ UNCHANGED <<productData, quantity, result,
                   searches, issued, homeQuantity, cleared>>
    /\ UNCHANGED pageVars

\* No response has reached odooService.getBestPrice yet.
NoResponse == [lst_price |-> 0, rules_by_application |-> EmptyRules]

HookInit ==
    /\ productData = NoResponse
    /\ quantity = 0
    /\ result = NoResult
    /\ HookIdle
    /\ PageMounted

HookNext ==
    \/ \E b \in BarcodeInputs : SearchProduct(b)
    \/ \E r \in BagToSet(searches) : \E reply \in Replies : SearchResponse(r, reply)
    \/ ClearData
    \/ ClearError
    \/ \E val \in TypedValues : ChangeQuantity(val)
    \/ BlurQuantity
    \/ PriceEffect
    \/ \E r \in BagToSet(resolutions) : \E reply \in Replies : PriceResponse(r, reply)

HookSpec == HookInit /\ [][HookNext]_vars

\* The hook under its search operations alone: searches by either method,
\* their responses in any order, clearData and clearError.
SearchNext ==
    \/ \E b \in BarcodeInputs : SearchProduct(b)
    \/ \E b \in BarcodeInputs : SearchProductByGet(b)
    \/ \E r \in BagToSet(searches) : \E reply \in Replies : SearchResponse(r, reply)
    \/ ClearData
    \/ ClearError

SearchSpec == HookInit /\ [][SearchNext]_vars

(* ------------------- Home: the price effect after a commit -------------- *)

\* The price effect of Home after the commit of a handler that leaves the
\* hook state st and the quantity q and has sent n requests: React runs it
\* when product, quantity or getBestPrice (lastSearchedBarcode) is not the
\* one of the last render, and it calls the hook when a product is loaded.
RunPriceEffect(st, q, fresh, n) ==
    IF st.product # NoProduct
       /\ (\/ fresh
           \/ q # homeQuantity
           \/ st.lastSearchedBarcode # state.lastSearchedBarcode)
    THEN CallGetBestPrice(st, q, n)
    ELSE /\ UNCHANGED <<resolutions, returned>>
         /\ issued' = issued + n

\* handleSearch of Home: searchProduct(codeToSearch) up to its await, and
\* the effects of the render that follows.
HandleSearch(b) ==
    LET blank == trim(b) = <<>>
        st == IF blank THEN rejected(state) ELSE started(state, b)
    IN /\ ~blank => issued < MaxRequests
       /\ state' = st
       /\ searches' = IF blank
                      THEN searches
                      ELSE searches (+) SetToBag(
                               {[barcode |-> trim(b), method |-> "POST"]})
       /\ cleared' = FALSE
       /\ RunPriceEffect(st, homeQuantity, FALSE, IF blank THEN 0 ELSE 1)
       /\ UNCHANGED <<productData, quantity, result, homeQuantity>>
       /\ UNCHANGED pageVars

\* The continuation of searchProduct, and the effects of the render that
\* follows: a product that arrived is a new object.
SearchSettled(r, reply) ==
    LET st == responded(state, r, reply) IN
    /\ BagIn(r, searches)
    /\ searches' = searches (-) SetToBag({r})
    /\ state' = st
    /\ RunPriceEffect(st, homeQuantity, mounted /\ reply = "ok", 0)
    /\ UNCHANGED <<productData, quantity, result, homeQuantity, cleared>>
    /\ UNCHANGED pageVars

\* onChange and onBlur of the quantity field, and the effects of the render
\* that follows.
QuantitySet(q) ==
    /\ homeQuantity' = q
    /\ RunPriceEffect(state, q, FALSE, 0)
    /\ UNCHANGED <<productData, quantity, result, state, searches, cleared>>
    /\ UNCHANGED pageVars

\* clearData from the product card, and the effects of the render that
\* follows.
DataCleared ==
    /\ state' = InitialState
    /\ cleared' = TRUE
    /\ RunPriceEffect(InitialState, homeQuantity, FALSE, 0)
    /\ UNCHANGED <<productData, quantity, result, searches, homeQuantity>>
    /\ UNCHANGED pageVars

PriceNext ==
    \/ \E b \in BarcodeInputs : HandleSearch(b)
    \/ \E r \in BagToSet(searches) : \E reply \in Replies : SearchSettled(r, reply)
    \/ \E val \in TypedValues : QuantitySet(changed(val))
    \/ QuantitySet(blurred(homeQuantity))
    \/ DataCleared
    \/ ClearError
    \/ \E r \in BagToSet(resolutions) : \E reply \in Replies : PriceResponse(r, reply)

PriceSpec == HookInit /\ [][PriceNext]_vars

(* ------------- the Home page, useServerStatus, the history ------------ *)

\* Interval timers the model lets startAutoCheck make, the one of the mount
\* effect included.
MaxTimers == 3

\* Status checks that await their answer at one time.
MaxChecks == 2

\* maxItems of useSearchHistory.
MaxItems == 10

\* The codes a scan or the manual form of QRCapture hands over: none of them
\* is blank.
DetectedCodes == {<<"1">>, <<"2">>}

\* An interval timer fires: checkStatus, up to its await.
TimerFires(t) ==
    /\ t \in timers
    /\ checks < MaxChecks
    /\ checks' = checks + 1
    /\ UNCHANGED <<isOnline, intervalId, timers, made, stopped, mounted,
                   isCameraActive, history, rendered, tick>>
    /\ UNCHANGED <<productData, quantity, result>>
    /\ UNCHANGED hookVars

\* checkStatus behind its await: checkServerStatus answers true or false.
StatusResponse(online) ==
    /\ checks > 0
    /\ checks' = checks - 1
    /\ isOnline' = IF mounted THEN online ELSE isOnline
    /\ UNCHANGED <<intervalId, timers, made, stopped, mounted,
                   isCameraActive, history, rendered, tick>>
    /\ UNCHANGED <<productData, quantity, result>>
    /\ UNCHANGED hookVars

\* startAutoCheck of the last render: it clears the timer that render knew.
StartAutoCheck ==
    /\ mounted
    /\ made < MaxTimers
    /\ timers' = (timers \ {rendered.intervalId}) \cup {made + 1}
    /\ intervalId' = made + 1
    /\ made' = made + 1
    /\ stopped' = FALSE
    /\ UNCHANGED <<isOnline, checks, mounted,
                   isCameraActive, history, rendered, tick>>
    /\ UNCHANGED <<productData, quantity, result>>
    /\ UNCHANGED hookVars

\* stopAutoCheck of the last render.
StopAutoCheck ==
    /\ mounted
    /\ IF rendered.intervalId # NoTimer
       THEN /\ timers' = timers \ {rendered.intervalId}
            /\ intervalId' = NoTimer
       ELSE UNCHANGED <<timers, intervalId>>
    /\ stopped' = TRUE
    /\ UNCHANGED <<isOnline, checks, made, mounted,
                   isCameraActive, history, rendered, tick>>
    /\ UNCHANGED <<productData, quantity, result>>
    /\ UNCHANGED hookVars

\* What a render hands to the callbacks it creates.
Current ==
    [isOnline |-> isOnline, loading |-> state.loading,
     product |-> state.product, isCameraActive |-> isCameraActive,
     history |-> history, intervalId |-> intervalId]

\* The component renders with the state it has; when intervalId changed, the
\* cleanup of the effect on [intervalId] clears the timer of the render
\* before.
Render ==
    /\ mounted
    /\ rendered # Current
    /\ rendered' = Current
    /\ timers' = IF intervalId # rendered.intervalId
                 THEN timers \ {rendered.intervalId}
                 ELSE timers
    /\ UNCHANGED <<isOnline, checks, intervalId, made, stopped, mounted,
                   isCameraActive, history, tick>>
    /\ UNCHANGED <<productData, quantity, result>>
    /\ UNCHANGED hookVars

\* The component unmounts: the cleanup of the effect on [intervalId] clears
\* the timer of the last render; the cleanup of the mount effect holds the
\* null of the first render.
Unmount ==
    /\ mounted
    /\ mounted' = FALSE
    /\ timers' = timers \ {rendered.intervalId}
    /\ UNCHANGED <<isOnline, checks, intervalId, made, stopped,
                   isCameraActive, history, rendered, tick>>
    /\ UNCHANGED <<productData, quantity, result>>
    /\ UNCHANGED hookVars

\* QRCapture is on the page of the last render.
CaptureRendered ==
    mounted /\ ~rendered.loading /\ rendered.product = NoProduct

\* onToggle of QRCapture.
ToggleCamera ==
    /\ CaptureRendered
    /\ isCameraActive' = ~rendered.isCameraActive
    /\ UNCHANGED <<isOnline, checks, intervalId, timers, made, stopped,
                   mounted, history, rendered, tick>>
    /\ UNCHANGED <<productData, quantity, result>>
    /\ UNCHANGED hookVars

\* slice(0, maxItems).
Slice0(s, n) == IF Len(s) <= n THEN s ELSE SubSeq(s, 1, n)

\* addToHistory(barcode) on the history of the last render.
addToHistory(prev, barcode) ==
    IF trim(barcode) = <<>> THEN prev
    ELSE Slice0(<<barcode>> \o SelectSeq(prev, LAMBDA item : item # barcode),
                MaxItems)

\* isOnline && !loading of handleCodeDetected, as the last render gave them.
Gate == rendered.isOnline /\ ~rendered.loading

\* handleCodeDetected(code).
HandleCodeDetected(code) ==
    /\ CaptureRendered
    /\ isCameraActive' = FALSE
    /\ tick' = ~tick
    /\ IF Gate
       THEN /\ StartSearch(code, "POST")
            /\ history' = addToHistory(rendered.history, code)
       ELSE UNCHANGED <<state, searches, issued, cleared, history>>
    /\ UNCHANGED <<isOnline, checks, intervalId, timers, made, stopped,
                   mounted, rendered>>
    /\ UNCHANGED <<productData, quantity, result>>
    /\ UNCHANGED <<resolutions, returned, homeQuantity>>

\* handleClearAll, on the page of a render with a product.
HandleClearAll ==
    /\ mounted
    /\ ~rendered.loading
    /\ rendered.product # NoProduct
    /\ state' = InitialState
    /\ cleared' = TRUE
    /\ isCameraActive' = FALSE
    /\ UNCHANGED <<isOnline, checks, intervalId, timers, made, stopped,
                   mounted, history, rendered, tick>>
    /\ UNCHANGED <<productData, quantity, result>>
    /\ UNCHANGED <<searches, resolutions, issued, returned, homeQuantity>>

\* useServerStatus alone, as a component that calls startAutoCheck and
\* stopAutoCheck.
StatusNext ==
    \/ \E t \in timers : TimerFires(t)
    \/ \E online \in BOOLEAN : StatusResponse(online)
    \/ StartAutoCheck
    \/ StopAutoCheck
    \/ Render
    \/ Unmount

StatusSpec == HookInit /\ [][StatusNext]_vars

\* The Home page: it takes isOnline from useServerStatus and leaves the
\* auto-check to the mount effect.
HomeNext ==
    \/ \E t \in timers : TimerFires(t)
    \/ \E online \in BOOLEAN : StatusResponse(online)
    \/ Render
    \/ ToggleCamera
    \/ \E code \in DetectedCodes : HandleCodeDetected(code)
    \/ HandleClearAll
    \/ \E r \in BagToSet(searches) : \E reply \in Replies :
          SearchResponse(r, reply)

HomeSpec == HookInit /\ [][HomeNext]_vars

(* ------------------- the specification's vocabulary ------------------- *)

\* A call of getBestPrice has returned.
Called == result # NoResult

\* The rule the call returned from, NoRule when it returned lst_price.
Applied == result.rule

AllEntries ==
    LET all == allRules(productData) IN {all[i] : i \in 1..Len(all)}

\* "Priced" in the data model of the specification.
Priced(rule) ==
    \/ rule.compute_price = "fixed" /\ rule.fixed_price > 0
    \/ rule.compute_price = "percentage" /\ rule.percent_price > 0

\* The price the specification computes from a matched rule.
RulePrice(lst_price, rule) ==
    IF rule.compute_price = "fixed" THEN rule.fixed_price * PriceScale
    ELSE lst_price * (100 - rule.percent_price)

BasePrice == productData.lst_price * PriceScale

\* The priced rules whose threshold the quantity of the call reaches.
QualifyingPriced ==
    {e \in AllEntries : Priced(e.rule) /\ e.rule.min_quantity <= quantity}

\* The precedence of the specification: 1 is consulted first.
Precedence ==
    [a \in Applications |->
        CASE a = "product_template" -> 1
          [] a = "product_variant" -> 2
          [] a = "category" -> 3
          [] a = "global" -> 4]

NonEmptyLists == {e.applied_on : e \in AllEntries}

SetMin(S) == CHOOSE x \in S : \A y \in S : x <= y

\* A well-formed product of the data model: a positive base price, fixed
\* prices positive when present, discounts in (0,100] when present.
WellFormed ==
    /\ productData.lst_price > 0
    /\ \A e \in AllEntries :
          /\ e.rule.min_quantity >= 1
          /\ e.rule.fixed_price >= 0
          /\ e.rule.percent_price >= 0
          /\ e.rule.percent_price <= 100

\* A rule that carries the price of its own compute_price and no other: on
\* such a rule the code and the data model agree on whether it is priced and
\* on its price.
PlainRule(rule) ==
    \/ rule.compute_price = "fixed" /\ rule.percent_price = 0
    \/ /\ rule.compute_price = "percentage"
       /\ rule.fixed_price = 0
       /\ rule.percent_price >= 0
       /\ rule.percent_price <= 100
    \/ /\ rule.compute_price = "formula"
       /\ rule.fixed_price = 0
       /\ rule.percent_price = 0

PlainProduct == \A e \in AllEntries : PlainRule(e.rule)

(* ------------------------------- claims ------------------------------- *)

\* The tiers of the precedence: the product's own rules (template and
\* variant, whose order is C2's matter), then category, then global.
Tier ==
    [a \in Applications |->
        IF Precedence[a] <= 2 THEN 1 ELSE Precedence[a] - 1]

\* C1 (as claimed): when a category holds a priced rule whose threshold the
\* quantity reaches, the applied rule is never one of a lower tier, whatever
\* the threshold and the price of the lower rule.  Stated on products of
\* plain rules, where every rule is priced for the code exactly when it is
\* priced for the data model.
ClaimC1 ==
    (Called /\ PlainProduct) =>
        \A e \in QualifyingPriced :
            /\ Applied # NoRule
            /\ Tier[Applied.applied_on] <= Tier[e.applied_on]

\* C2 (as claimed): when a product_template rule and a product_variant rule
\* are both priced and both reached by the quantity, the rule applied is a
\* product_template rule.  Stated on products of plain rules.
ClaimC2 ==
    (/\ Called
     /\ PlainProduct
     /\ \E e \in QualifyingPriced : e.applied_on = "product_template"
     /\ \E e \in QualifyingPriced : e.applied_on = "product_variant")
        => (Applied # NoRule /\ Applied.applied_on = "product_template")

\* C3 (as claimed): for a well-formed product in which no priced rule has
\* min_quantity <= quantity (the four lists being empty included), the call
\* returns lst_price and applies no rule.
ClaimC3 ==
    (Called /\ WellFormed /\ QualifyingPriced = {})
        => (result.price = BasePrice /\ Applied = NoRule)

\* C4 (as claimed): when only one list of a well-formed product holds rules,
\* the rule applied is a priced rule reached by the quantity, and none of
\* those has a greater min_quantity.
ClaimC4 ==
    (/\ Called
     /\ WellFormed
     /\ Cardinality(NonEmptyLists) = 1
     /\ QualifyingPriced # {})
        => /\ Applied \in QualifyingPriced
           /\ \A e \in QualifyingPriced :
                 e.rule.min_quantity <= Applied.rule.min_quantity

\* C5 (as claimed): compute_price is authoritative: the rule applied to a
\* well-formed product is priced under its own compute_price and the price
\* returned is the one that mode gives, never the fixed_price of a rule whose
\* mode is not 'fixed'.
ClaimC5 ==
    (Called /\ WellFormed /\ Applied # NoRule)
        => /\ Priced(Applied.rule)
           /\ result.price = RulePrice(productData.lst_price, Applied.rule)

UnpricedFixed(rule) ==
    rule.compute_price = "fixed" /\ rule.fixed_price = 0

\* C6 (as claimed): a 'fixed' rule without a fixed_price that the quantity
\* reaches never determines the result; resolution goes on with the other
\* rules of the (well-formed) product and returns lst_price when none of them
\* is priced and reached.
ClaimC6 ==
    (/\ Called
     /\ WellFormed
     /\ \E e \in AllEntries :
           UnpricedFixed(e.rule) /\ e.rule.min_quantity <= quantity)
        => /\ Applied # NoRule => ~UnpricedFixed(Applied.rule)
           /\ QualifyingPriced = {} =>
                 (result.price = BasePrice /\ Applied = NoRule)

\* C6, the part the code keeps: a 'fixed' rule without a fixed_price is never
\* the rule the call returns from.
UnpricedFixedNeverApplied ==
    (Called /\ Applied # NoRule) => ~UnpricedFixed(Applied.rule)

\* C7 (as claimed): when the rule applied to a well-formed product is a
\* 'percentage' rule with discount p > 0, the price returned is
\* lst_price * (100 - p) / 100.
ClaimC7 ==
    (/\ Called
     /\ WellFormed
     /\ Applied # NoRule
     /\ Applied.rule.compute_price = "percentage"
     /\ Applied.rule.percent_price > 0)
        => result.price = productData.lst_price * (100 - Applied.rule.percent_price)

\* C8: a rule is applied only to a quantity that is at least its
\* min_quantity; a priced rule whose min_quantity the quantity reaches keeps
\* the call from falling back to lst_price; and the only rule of a product,
\* when priced, is applied exactly when quantity >= min_quantity.
TheoremC8 ==
    Called =>
        /\ Applied # NoRule => Applied.rule.min_quantity <= quantity
        /\ QualifyingPriced # {} => Applied # NoRule
        /\ LET all == AllEntries IN
           Cardinality(all) = 1 =>
               \A e \in all :
                   Priced(e.rule)
                       => (Applied = e <=> quantity >= e.rule.min_quantity)

\* C8 witness: a priced rule applied to a quantity equal to its min_quantity.
WitnessC8 ==
    /\ Called
    /\ Applied # NoRule
    /\ Priced(Applied.rule)
    /\ Applied.rule.min_quantity = quantity
    /\ quantity > 1

\* C9 (as claimed): the price resolved for a well-formed product is strictly
\* positive.
ClaimC9 == (Called /\ WellFormed) => result.price > 0

\* C9 (amended): the price resolved for a well-formed product is never
\* negative, and it is 0 only through a 'percentage' rule with a discount of
\* 100.
TheoremC9 ==
    (Called /\ WellFormed)
        => /\ result.price >= 0
           /\ result.price = 0 =>
                 /\ Applied # NoRule
                 /\ Applied.rule.compute_price = "percentage"
                 /\ Applied.rule.percent_price = 100

\* C9 witness: a well-formed product resolved through a discount of 100.
WitnessC9 ==
    /\ Called
    /\ WellFormed
    /\ Applied # NoRule
    /\ Applied.rule.percent_price = 100
    /\ result.price = 0

\* C10 (as documented on the method): the price returned is the lowest of
\* lst_price and the prices of the priced rules with min_quantity <= quantity.
\* Stated on products of plain rules.
ClaimC10 ==
    (Called /\ PlainProduct) =>
        result.price =
            SetMin({BasePrice} \cup
                   {RulePrice(productData.lst_price, e.rule) :
                        e \in QualifyingPriced})

\* Two returns of getBestPrice of the hook are kept apart by the step
\* between them; Returns is a step in which the hook returns.
Returns == returned' # returned

\* C11 (as claimed): two resolutions for the same loaded product and the
\* same quantity that both return a price return the same price, whatever
\* happened between them.
ClaimC11 ==
    [][(/\ returned.outcome = "price"
        /\ returned'.outcome = "price"
        /\ returned'.product = returned.product
        /\ returned'.quantity = returned.quantity)
           => returned'.price = returned.price]_vars

\* C12 (as claimed): a price resolution has no request to the provider
\* outstanding, and a price it returns is the price of the product that was
\* loaded at the call.
ClaimC12 ==
    /\ resolutions = EmptyBag
    /\ returned.outcome = "price" =>
          returned.price = getBestPrice(returned.product,
                                        returned.quantity).price

\* C13 (as claimed): a resolution made while a product is loaded returns a
\* price, never null.
ClaimC13 ==
    (returned.outcome # "none" /\ returned.product # NoProduct)
        => returned.outcome = "price"

\* C14: getBestPrice of the hook never rejects: it returns a price that is
\* not negative, or null; and for a record without rules_by_application the
\* price it returns is lst_price.
TheoremC14 ==
    /\ returned.outcome \in {"none", "price", "null"}
    /\ returned.outcome = "price" =>
          /\ returned.price >= 0
          /\ Catalog[returned.barcode].rules_by_application = Absent =>
                returned.price =
                    Catalog[returned.barcode].lst_price * PriceScale

\* C14 witness: the request of a resolution failed and the hook returned
\* null.
WitnessC14 ==
    /\ returned.outcome = "null"
    /\ returned.barcode # NoBarcode

\* C15 (as claimed): every quantity handed to getBestPrice while a product is
\* loaded is at least 1.
ClaimC15 ==
    /\ \A r \in BagToSet(resolutions) : r.quantity >= 1
    /\ returned.outcome # "none" => returned.quantity >= 1

\* C16: a step of a price resolution, its call or its return, leaves the
\* state of the hook as it was: the loaded product with its four lists, and
\* loading, error and lastSearchedBarcode.
TheoremC16 ==
    [][(resolutions' # resolutions \/ Returns) => state' = state]_vars

\* C16 witness: a price was resolved from the record whose category list is
\* not in the order of the sort, and that product is still the loaded one.
WitnessC16 ==
    /\ returned.outcome = "price"
    /\ returned.barcode = <<"2">>
    /\ state.product = Catalog[<<"2">>]
    /\ returned.product = state.product

\* C17: of the priced rules of one list that have the same min_quantity and
\* are reached by the quantity, none is applied in place of one listed
\* before it.
TheoremC17 ==
    (Called /\ Applied # NoRule) =>
        \A e \in QualifyingPriced :
            (/\ e.applied_on = Applied.applied_on
             /\ e.rule.min_quantity = Applied.rule.min_quantity)
                => Applied.index <= e.index

\* C17 witness: the first of two priced rules of one list with the same
\* min_quantity and different prices is applied.
WitnessC17 ==
    /\ Called
    /\ Applied # NoRule
    /\ Priced(Applied.rule)
    /\ \E e \in QualifyingPriced :
          /\ e.applied_on = Applied.applied_on
          /\ e.rule.min_quantity = Applied.rule.min_quantity
          /\ e.index > Applied.index
          /\ RulePrice(productData.lst_price, e.rule) # result.price

\* C18 (as claimed): from clearData until the next search begins, product,
\* error and lastSearchedBarcode are null and loading is false.
ClaimC18 == cleared => state = InitialState

\* C19 (as claimed): at most one interval timer of the auto-check is running
\* at any time, and none is running after stopAutoCheck or after the
\* component is unmounted.
ClaimC19 ==
    /\ Cardinality(timers) <= 1
    /\ stopped => timers = {}
    /\ ~mounted => timers = {}

\* A step of handleCodeDetected.
Detected == tick' # tick

\* The step began a search and put its code first in the history.
SearchStarted ==
    /\ issued' = issued + 1
    /\ state'.loading
    /\ history' # <<>>
    /\ trim(Head(history')) = state'.lastSearchedBarcode

\* C20 (as claimed): a detected code always turns the camera off; it starts
\* a search and enters the history exactly when the server is online and no
\* search is loading, and otherwise leaves product, error, history and the
\* searches in flight as they are.
ClaimC20 ==
    [][Detected =>
          /\ ~isCameraActive'
          /\ IF isOnline /\ ~state.loading
             THEN SearchStarted
             ELSE /\ state'.product = state.product
                  /\ state'.error = state.error
                  /\ history' = history
                  /\ searches' = searches]_vars

\* C21: a clearError step sets error to null and leaves product, loading and
\* lastSearchedBarcode as they were.
TheoremC21 ==
    [][ClearError =>
          /\ state'.error = NoError
          /\ state'.product = state.product
          /\ state'.loading = state.loading
          /\ state'.lastSearchedBarcode = state.lastSearchedBarcode]_vars

\* A failed search has completed, none is in flight, and the error is gone
\* with the barcode still recorded: only clearError leads here, since a new
\* search ends with a product or with an error and clearData forgets the
\* barcode.
WitnessC21 ==
    /\ searches = EmptyBag
    /\ state.product = NoProduct
    /\ ~state.loading
    /\ state.error = NoError
    /\ state.lastSearchedBarcode # NoBarcode

\* C22: when no search is in flight and a product is loaded, the product is
\* the record of lastSearchedBarcode (stated for the states where a search
\* has been started since the last clearData).
ClaimC22 ==
    (/\ searches = EmptyBag
     /\ state.product # NoProduct
     /\ state.lastSearchedBarcode # NoBarcode)
        => state.product.barcode = state.lastSearchedBarcode

\* C23: loading is true exactly when a search is in flight (stated for the
\* states where a search has been started since the last clearData).
ClaimC23 ==
    state.lastSearchedBarcode # NoBarcode
        => (state.loading <=> searches # EmptyBag)

\* C24: when no search is in flight, and the error is not the one a blank
\* barcode leaves, product and error are not both set.
ClaimC24 ==
    (searches = EmptyBag /\ state.error # RequiredMessage)
        => ~(state.product # NoProduct /\ state.error # NoError)

\* The inputs that are empty or made of blanks only.
BlankInputs == {b \in BarcodeInputs : \A i \in DOMAIN b : b[i] = " "}

\* C25: a searchProduct or searchProductByGet step with an empty or blank
\* barcode sets error to the 'required' message, sends no request and leaves
\* product, loading and lastSearchedBarcode as they were.
TheoremC25 ==
    [][(\E b \in BlankInputs : SearchProduct(b) \/ SearchProductByGet(b)) =>
          /\ state'.error = RequiredMessage
          /\ searches' = searches
          /\ issued' = issued
          /\ state'.product = state.product
          /\ state'.loading = state.loading
          /\ state'.lastSearchedBarcode = state.lastSearchedBarcode]_vars

\* The 'required' message, which only a blank barcode sets, beside a loaded
\* product, with loading true and a search in flight.
WitnessC25 ==
    /\ state.error = RequiredMessage
    /\ state.product # NoProduct
    /\ state.loading
    /\ state.lastSearchedBarcode # NoBarcode
    /\ searches # EmptyBag

\* C26: once no search and no price resolution is pending, the product is
\* the one last searched and the last resolution has settled with a price
\* for its barcode, the price Home has been handed is the price of the loaded
\* product for the quantity of the field.
ClaimC26 ==
    (/\ searches = EmptyBag
     /\ resolutions = EmptyBag
     /\ state.product # NoProduct
     /\ state.product.barcode = state.lastSearchedBarcode
     /\ returned.outcome = "price"
     /\ returned.barcode = state.lastSearchedBarcode)
        => returned.price =
               getBestPrice(state.product, Number(homeQuantity)).price

====
